---- MODULE Spec2Model ----
(***************************************************************************)
(* Model of loken-hierarchies-ts: the links and the brand of Node, the      *)
(* GraphSignal and the SequenceSignal that drive the traversals, the        *)
(* Hierarchy that indexes and brands nodes, and the operations built on     *)
(* them.                                                                    *)
(***************************************************************************)
EXTENDS Integers, Sequences, FiniteSets, TLC

\* ------------------------------------------------------------------ bounds
\* Number of nodes of the general specification.
NumNodes == 3
\* Number of nodes of the specification that starts from an assembled forest.
TreeNodes == 5
\* Longest array of nodes passed to attach / detach.
MaxArgs == 2
\* Number of successful brand() calls in one behaviour.
MaxBrands == 2
\* Number of nodes of the specification of Hierarchy.
HierNodes == 3
\* Number of nodes of the specification of tree traversal.
TravNodes == 4
\* Number of nodes of the specification of traversal with cycle detection.
GraphNodes == 3
\* Largest number of nodes that `next` returns for one node of a graph.
MaxEdges == 2
\* Number of nodes of the specification of traversal with a signal callback.
SignalNodes == 3

\* ------------------------------------------------------------------ values
\* `undefined` where a node is expected (Node.#parent).
NoNode == 0
\* `undefined` where a brand is expected (Node.#brand, the argument of brand()).
Undefined == "undefined"
\* Owners used as brands.  "H" stands for a Hierarchy instance (hierarchy.ts
\* defines no Equals method); "E" is an owner that brings an Equals method,
\* which answers whether the other owner is the same one.
Owners == {"H", "E"}
HasEquals(o) == o = "E"
\* Node.#children === undefined
NoChildren == [defined |-> FALSE, items |-> <<>>]
\* No Hierarchy has been constructed.
NoHierarchy == <<>>
\* No traversal has been started.
NoTraversal == [started |-> FALSE]
\* new MultiMap(): no entries.
NewMultiMap == <<>>

VARIABLES
    parent,     \* Node.#parent of every node (NoNode: undefined)
    children,   \* Node.#children of every node: a Set in insertion order, or undefined
    brand,      \* Node.#brand of every node
    debrands,   \* per node, the DeBrand delegates its brand() calls returned, in
                \* order of the calls: TRUE once the delegate has been called
    last,       \* the call made last: [op, result]
    hier,       \* per Hierarchy instance: [roots, nodes, debrand] (#roots, #nodes, #debrand)
    trav,       \* the traversal in progress: its signal and what it has yielded
    map         \* a MultiMap: its entries in insertion order

vars == <<parent, children, brand, debrands, last, hier, trav, map>>

Nodes == DOMAIN parent

Range(s) == {s[i] : i \in 1..Len(s)}

\* All arrays of at most n elements of S.
SeqsUpTo(S, n) == UNION {[1..k -> S] : k \in 0..n}

\* ------------------------------------------------------------------ Node
\* The link state the Node operations read and write.
Links == [parent |-> parent, children |-> children]

\* get isRoot
isRoot(s, n) == s.parent[n] = NoNode

\* get isLeaf
isLeaf(s, n) == ~s.children[n].defined \/ Len(s.children[n].items) = 0

\* get children: a copy of the set as an array, [] when undefined
childrenOf(s, n) == IF s.children[n].defined THEN s.children[n].items ELSE <<>>

\* get isBranded
isBranded(n) == brand[n] # Undefined

\* Set.prototype.add on an insertion-ordered set.
SetAdd(items, x) == IF x \in Range(items) THEN items ELSE Append(items, x)

\* Set.prototype.delete on an insertion-ordered set.
SetDelete(items, x) == SelectSeq(items, LAMBDA y : y # x)

\* Node.isBrandCompatible(other): "true", "false", or "TypeError" when
\* this.#brand has no Equals method to call.
isBrandCompatible(this, other) ==
    IF brand[this] = Undefined
    THEN (IF brand[other] = Undefined THEN "true" ELSE "false")
    ELSE IF brand[other] = Undefined
    THEN "false"
    ELSE IF HasEquals(brand[this])
    THEN (IF brand[this] = brand[other] THEN "true" ELSE "false")
    ELSE "TypeError"

\* nodes.every(node => node.isBrandCompatible(this)): the outcome of the first
\* element that does not answer "true", "true" when there is none.
RECURSIVE everyCompatible(_, _, _)
everyCompatible(this, nodes, i) ==
    IF i > Len(nodes) THEN "true"
    ELSE LET r == isBrandCompatible(nodes[i], this)
         IN  IF r = "true" THEN everyCompatible(this, nodes, i + 1) ELSE r

\* The loop of attach: add each child to the set and point it at `this`.
RECURSIVE attachLoop(_, _, _, _)
attachLoop(s, this, nodes, i) ==
    IF i > Len(nodes) THEN s
    ELSE attachLoop(
            [parent   |-> [s.parent EXCEPT ![nodes[i]] = this],
             children |-> [s.children EXCEPT ![this] =
                              [defined |-> TRUE,
                               items   |-> SetAdd(s.children[this].items, nodes[i])]]],
            this, nodes, i + 1)

Fail(s, why) == [parent |-> s.parent, children |-> s.children, result |-> why]
Done(s)      == [parent |-> s.parent, children |-> s.children, result |-> "ok"]

\* attach without the check that every child is a root.
attach_noRootCheck(s, this, nodes) ==
    IF Len(nodes) = 0
    THEN Fail(s, "error")
    ELSE IF everyCompatible(this, nodes, 1) # "true"
    THEN Fail(s, IF everyCompatible(this, nodes, 1) = "false" THEN "error" ELSE "TypeError")
    ELSE Done(attachLoop(s, this, nodes, 1))

\* Node.attach(children)
attach(s, this, nodes) ==
    IF Len(nodes) = 0
    THEN Fail(s, "error")
    ELSE IF \E i \in 1..Len(nodes) : ~isRoot(s, nodes[i])
    THEN Fail(s, "error")
    ELSE IF everyCompatible(this, nodes, 1) # "true"
    THEN Fail(s, IF everyCompatible(this, nodes, 1) = "false" THEN "error" ELSE "TypeError")
    ELSE Done(attachLoop(s, this, nodes, 1))

\* The loop of detach: delete each node from the set and clear its parent.
RECURSIVE detachLoop(_, _, _, _)
detachLoop(s, this, nodes, i) ==
    IF i > Len(nodes) THEN s
    ELSE detachLoop(
            [parent   |-> [s.parent EXCEPT ![nodes[i]] = NoNode],
             children |-> [s.children EXCEPT ![this] =
                              [defined |-> TRUE,
                               items   |-> SetDelete(s.children[this].items, nodes[i])]]],
            this, nodes, i + 1)

\* if (this.isLeaf) this.#children = undefined
dropEmptySet(s, n) ==
    IF isLeaf(s, n)
    THEN [parent |-> s.parent, children |-> [s.children EXCEPT ![n] = NoChildren]]
    ELSE [parent |-> s.parent, children |-> s.children]

\* detach without the check that no child is branded.
detach_noBrandCheck(s, this, nodes) ==
    IF Len(nodes) = 0
    THEN Fail(s, "error")
    ELSE IF isLeaf(s, this) \/ \E i \in 1..Len(nodes) : nodes[i] \notin Range(s.children[this].items)
    THEN Fail(s, "error")
    ELSE Done(dropEmptySet(detachLoop(s, this, nodes, 1), this))

\* Node.detach(children)
detach(s, this, nodes) ==
    IF Len(nodes) = 0
    THEN Fail(s, "error")
    ELSE IF isLeaf(s, this) \/ \E i \in 1..Len(nodes) : nodes[i] \notin Range(s.children[this].items)
    THEN Fail(s, "error")
    ELSE IF \E i \in 1..Len(nodes) : isBranded(nodes[i])
    THEN Fail(s, "error")
    ELSE Done(dropEmptySet(detachLoop(s, this, nodes, 1), this))

\* detachSelf that leaves the emptied child set in place.
detachSelf_keepsEmptySet(s, this) ==
    IF isRoot(s, this)
    THEN Fail(s, "error")
    ELSE IF isBranded(this)
    THEN Fail(s, "error")
    ELSE IF isLeaf(s, s.parent[this]) \/ this \notin Range(s.children[s.parent[this]].items)
    THEN Fail(s, "error")
    ELSE LET p == s.parent[this]
         IN  Done([parent   |-> [s.parent EXCEPT ![this] = NoNode],
                   children |-> [s.children EXCEPT ![p] =
                                    [defined |-> TRUE,
                                     items   |-> SetDelete(s.children[p].items, this)]]])

\* detachSelf without the check that the node is not branded.
detachSelf_noBrandCheck(s, this) ==
    IF isRoot(s, this)
    THEN Fail(s, "error")
    ELSE IF isLeaf(s, s.parent[this]) \/ this \notin Range(s.children[s.parent[this]].items)
    THEN Fail(s, "error")
    ELSE LET p  == s.parent[this]
             s1 == [parent   |-> s.parent,
                    children |-> [s.children EXCEPT ![p] =
                                     [defined |-> TRUE,
                                      items   |-> SetDelete(s.children[p].items, this)]]]
             s2 == dropEmptySet(s1, p)
         IN  Done([parent |-> [s2.parent EXCEPT ![this] = NoNode], children |-> s2.children])

\* Node.detachSelf()
detachSelf(s, this) ==
    IF isRoot(s, this)
    THEN Fail(s, "error")
    ELSE IF isBranded(this)
    THEN Fail(s, "error")
    ELSE IF isLeaf(s, s.parent[this]) \/ this \notin Range(s.children[s.parent[this]].items)
    THEN Fail(s, "error")
    ELSE LET p  == s.parent[this]
             s1 == [parent   |-> s.parent,
                    children |-> [s.children EXCEPT ![p] =
                                     [defined |-> TRUE,
                                      items   |-> SetDelete(s.children[p].items, this)]]]
             s2 == dropEmptySet(s1, p)
         IN  Done([parent |-> [s2.parent EXCEPT ![this] = NoNode], children |-> s2.children])

\* ------------------------------------------------------------------ GraphSignal
\* ILinear.attach(items) of the frontier: a LinearQueue appends; a LinearStack
\* pushes so that the first item supplied is the first one detached.
linearAttach(sig, items) ==
    IF sig.isDepthFirst THEN items \o sig.nodes ELSE sig.nodes \o items

\* A GraphSignal that is depth-first whatever the type asked for.
GraphSignal_alwaysDepthFirst(roots, type, detectCycles) ==
    [visited      |-> {},
     detectCycles |-> detectCycles,
     isDepthFirst |-> TRUE,
     nodes        |-> roots,
     depth        |-> 0,
     branchCount  |-> <<Len(roots)>>,
     depthCount   |-> Len(roots),
     count        |-> 0,
     skipped      |-> FALSE]

\* A GraphSignal that is breadth-first whatever the type asked for.
GraphSignal_neverDepthFirst(roots, type, detectCycles) ==
    [visited      |-> {},
     detectCycles |-> detectCycles,
     isDepthFirst |-> FALSE,
     nodes        |-> roots,
     depth        |-> 0,
     branchCount  |-> <<>>,
     depthCount   |-> Len(roots),
     count        |-> 0,
     skipped      |-> FALSE]

\* GraphSignal.constructor
GraphSignal(roots, type, detectCycles) ==
    [visited      |-> {},
     detectCycles |-> detectCycles,
     isDepthFirst |-> (type = "depth-first"),
     nodes        |-> roots,
     depth        |-> 0,
     branchCount  |-> IF type = "depth-first" THEN <<Len(roots)>> ELSE <<>>,
     depthCount   |-> Len(roots),
     count        |-> 0,
     skipped      |-> FALSE]

\* GraphSignal.next that hands the nodes to the frontier in reverse order.
signalNext_reversed(sig, items) ==
    [sig EXCEPT !.nodes       = linearAttach(sig, [i \in 1..Len(items) |-> items[Len(items) + 1 - i]]),
                !.branchCount = IF sig.isDepthFirst /\ Len(items) > 0
                                THEN Append(@, Len(items)) ELSE @]

\* GraphSignal.next(nodes)
signalNext(sig, items) ==
    [sig EXCEPT !.nodes       = linearAttach(sig, items),
                !.branchCount = IF sig.isDepthFirst /\ Len(items) > 0
                                THEN Append(@, Len(items)) ELSE @]

\* GraphSignal.skip()
signalSkip(sig) == [sig EXCEPT !.skipped = TRUE]

\* GraphSignal.end()
signalEnd(sig) == [sig EXCEPT !.nodes = <<>>]

\* GraphSignal.shouldYield()
shouldYield(sig) == ~sig.skipped

\* The loop of cleanup: pop the branch-count frames that are at zero.
RECURSIVE popZeroFrames(_)
popZeroFrames(bc) ==
    IF Len(bc) > 0 /\ bc[Len(bc)] = 0
    THEN popZeroFrames(SubSeq(bc, 1, Len(bc) - 1))
    ELSE bc

\* cleanup that counts the node whether it was skipped or not.
cleanup_countsSkipped(sig) ==
    [sig EXCEPT !.branchCount = IF sig.isDepthFirst THEN popZeroFrames(@) ELSE @,
                !.count       = @ + 1]

\* GraphSignal.cleanup()
cleanup(sig) ==
    [sig EXCEPT !.branchCount = IF sig.isDepthFirst THEN popZeroFrames(@) ELSE @,
                !.count       = IF sig.skipped THEN @ ELSE @ + 1]

\* GraphSignal.tryGetNextInternal(): [success, value, sig]
tryGetNextInternal(sig) ==
    IF Len(sig.nodes) = 0
    THEN [success |-> FALSE, value |-> NoNode, sig |-> sig]
    ELSE LET rest == Tail(sig.nodes)
             bc   == sig.branchCount
         IN  [success |-> TRUE,
              value   |-> Head(sig.nodes),
              sig     |->
                 IF sig.isDepthFirst
                 THEN [sig EXCEPT !.nodes       = rest,
                                  !.skipped     = FALSE,
                                  !.depth       = Len(bc) - 1,
                                  !.branchCount = IF Len(bc) > 0
                                                  THEN [bc EXCEPT ![Len(bc)] = @ - 1]
                                                  ELSE bc]
                 ELSE [sig EXCEPT !.nodes      = rest,
                                  !.skipped    = FALSE,
                                  !.depth      = IF sig.depthCount = 0 THEN @ + 1 ELSE @,
                                  !.depthCount = IF sig.depthCount = 0
                                                 THEN Len(rest) ELSE @ - 1]]

\* tryGetNext that returns whatever the frontier gives back.
tryGetNext_noCycleCheck(sig) == tryGetNextInternal(sig)

\* GraphSignal.tryGetNext(): with cycle detection, discard what was visited.
RECURSIVE tryGetNext(_)
tryGetNext(sig) ==
    LET res == tryGetNextInternal(sig)
    IN  IF ~sig.detectCycles \/ ~res.success
        THEN res
        ELSE IF res.value \notin res.sig.visited
        THEN [res EXCEPT !.sig.visited = @ \cup {res.value}]
        ELSE tryGetNext(res.sig)

\* ------------------------------------------------------------------ dismantle
\* traverseGraph({ roots, next: node => node.children }) up to its next yield
\* or its end: pull a node from the signal and pass its children to
\* signal.next; the node is yielded when the signal says so.
traverseDescendantsPull(s, sig) ==
    LET res == tryGetNext(sig)
    IN  IF ~res.success
        THEN [success |-> FALSE, value |-> NoNode, sig |-> res.sig, yielded |-> FALSE]
        ELSE LET sig1 == signalNext(res.sig, childrenOf(s, res.value))
             IN  [success |-> TRUE, value |-> res.value, sig |-> sig1,
                  yielded |-> shouldYield(sig1)]

\* for (let descendant of this.traverseDescendants({ excludeSelf: true }))
\*     descendant.detachSelf();
\* The traversal is lazy: the loop body runs at every yield, and the
\* traversal goes on (cleanup, next pull) on the links the body has left.
RECURSIVE detachDescendants(_, _)
detachDescendants(s, sig) ==
    LET res == traverseDescendantsPull(s, sig)
    IN  IF ~res.success
        THEN Done(s)
        ELSE LET s1 == IF res.yielded THEN detachSelf(s, res.value) ELSE Done(s)
             IN  IF s1.result # "ok"
                 THEN s1
                 ELSE detachDescendants(s1, cleanup(res.sig))

\* dismantle that detaches the node from its parent and leaves the ancestry alone.
dismantle_selfOnly(s, this, includeAncestry) ==
    LET up == IF ~isRoot(s, this) /\ includeAncestry THEN detachSelf(s, this) ELSE Done(s)
    IN  IF up.result # "ok"
        THEN up
        ELSE detachDescendants(up, GraphSignal(childrenOf(up, this), "breadth-first", FALSE))

\* Node.dismantle(includeAncestry)
RECURSIVE dismantle(_, _, _)
dismantle(s, this, includeAncestry) ==
    LET up == IF ~isRoot(s, this) /\ includeAncestry
              THEN LET d == detachSelf(s, this)
                   IN  IF d.result # "ok" THEN d ELSE dismantle(d, s.parent[this], TRUE)
              ELSE Done(s)
    IN  IF up.result # "ok"
        THEN up
        ELSE detachDescendants(up, GraphSignal(childrenOf(up, this), "breadth-first", FALSE))

\* brand without the check for an existing brand.
brandOf_rebrand(n, owner) ==
    IF owner = Undefined
    THEN [brand |-> brand[n], result |-> "error"]
    ELSE [brand |-> owner, result |-> "ok"]

\* Node.brand(brand): the new brand of the node and whether a delegate is returned.
brandOf(n, owner) ==
    IF owner = Undefined
    THEN [brand |-> brand[n], result |-> "error"]
    ELSE IF brand[n] # Undefined
    THEN [brand |-> brand[n], result |-> "error"]
    ELSE [brand |-> owner, result |-> "ok"]

\* The DeBrand delegate returned by brand(): () => this.#brand = undefined
deBrand(n) == [brand EXCEPT ![n] = Undefined]

\* ------------------------------------------------------------------ actions
\* Number of delegates returned so far.
RECURSIVE SumLen(_, _)
SumLen(f, S) ==
    IF S = {} THEN 0
    ELSE LET n == CHOOSE x \in S : TRUE IN Len(f[n]) + SumLen(f, S \ {n})
Issued == SumLen(debrands, Nodes)

Called(op, result) == [op |-> op, result |-> result]

SetLinks(r) ==
    /\ parent' = r.parent
    /\ children' = r.children

\* this.attach(nodes)
Attach(this, nodes) ==
    /\ SetLinks(attach(Links, this, nodes))
    /\ last' = Called("attach", attach(Links, this, nodes).result)
    /\ UNCHANGED <<brand, debrands, hier, trav, map>>

\* this.detach(nodes)
Detach(this, nodes) ==
    /\ SetLinks(detach(Links, this, nodes))
    /\ last' = Called("detach", detach(Links, this, nodes).result)
    /\ UNCHANGED <<brand, debrands, hier, trav, map>>

\* this.detachSelf()
DetachSelf(this) ==
    /\ SetLinks(detachSelf(Links, this))
    /\ last' = Called("detachSelf", detachSelf(Links, this).result)
    /\ UNCHANGED <<brand, debrands, hier, trav, map>>

\* this.dismantle(includeAncestry)
Dismantle(this, includeAncestry) ==
    /\ SetLinks(dismantle(Links, this, includeAncestry))
    /\ last' = Called(IF includeAncestry THEN "dismantle(true)" ELSE "dismantle(false)",
                      dismantle(Links, this, includeAncestry).result)
    /\ UNCHANGED <<brand, debrands, hier, trav, map>>

\* this.brand(owner); the delegate it returns is kept by the caller.
Brand(this, owner) ==
    /\ brandOf(this, owner).result = "ok" => Issued < MaxBrands
    /\ brand' = [brand EXCEPT ![this] = brandOf(this, owner).brand]
    /\ debrands' = IF brandOf(this, owner).result = "ok"
                   THEN [debrands EXCEPT ![this] = Append(@, FALSE)]
                   ELSE debrands
    /\ last' = Called("brand", brandOf(this, owner).result)
    /\ UNCHANGED <<parent, children, hier, trav, map>>

\* A call of the delegate that the i-th brand() call on `this` returned.
Release(this, i) ==
    /\ brand' = deBrand(this)
    /\ debrands' = [debrands EXCEPT ![this][i] = TRUE]
    /\ last' = Called("debrand", "ok")
    /\ UNCHANGED <<parent, children, hier, trav, map>>

\* this.isBrandCompatible(other)
IsBrandCompatible(this, other) ==
    /\ last' = Called("isBrandCompatible", isBrandCompatible(this, other))
    /\ UNCHANGED <<parent, children, brand, debrands, hier, trav, map>>

\* Nodes as constructed: no parent, no children, no brand.
Init ==
    /\ parent = [n \in 1..NumNodes |-> NoNode]
    /\ children = [n \in 1..NumNodes |-> NoChildren]
    /\ brand = [n \in 1..NumNodes |-> Undefined]
    /\ debrands = [n \in 1..NumNodes |-> <<>>]
    /\ last = Called("new", "ok")
    /\ hier = NoHierarchy
    /\ trav = NoTraversal
    /\ map = NewMultiMap

Next ==
    \/ \E this \in Nodes, nodes \in SeqsUpTo(Nodes, MaxArgs) : Attach(this, nodes)
    \/ \E this \in Nodes, nodes \in SeqsUpTo(Nodes, MaxArgs) : Detach(this, nodes)
    \/ \E this \in Nodes : DetachSelf(this)
    \/ \E this \in Nodes, includeAncestry \in BOOLEAN : Dismantle(this, includeAncestry)
    \/ \E this \in Nodes, owner \in Owners \cup {Undefined} : Brand(this, owner)
    \/ \E this \in Nodes : \E i \in 1..Len(debrands[this]) : Release(this, i)
    \/ \E this \in Nodes, other \in Nodes : IsBrandCompatible(this, other)

Spec == Init /\ [][Next]_vars

\* ------------------------------------------------------------------ forests
\* Following parent pointers from n reaches a root within k steps.
RECURSIVE ReachesRoot(_, _, _)
ReachesRoot(p, n, k) ==
    IF p[n] = NoNode THEN TRUE
    ELSE IF k = 0 THEN FALSE
    ELSE ReachesRoot(p, p[n], k - 1)

Acyclic(p) == \A n \in DOMAIN p : ReachesRoot(p, n, Cardinality(DOMAIN p))

\* a is a proper ancestor of n, found within k steps up the parent chain.
RECURSIVE IsAncestorIn(_, _, _, _)
IsAncestorIn(p, a, n, k) ==
    /\ k > 0
    /\ p[n] # NoNode
    /\ (p[n] = a \/ IsAncestorIn(p, a, p[n], k - 1))

IsAncestor(p, a, n) == IsAncestorIn(p, a, n, Cardinality(DOMAIN p))

\* The root of the tree of n in a forest.
RECURSIVE RootOf(_, _)
RootOf(p, n) == IF p[n] = NoNode THEN n ELSE RootOf(p, p[n])

\* The elements of a set of numbers in ascending order.
RECURSIVE Ascending(_)
Ascending(S) ==
    IF S = {} THEN <<>>
    ELSE LET m == CHOOSE x \in S : \A y \in S : x <= y
         IN  <<m>> \o Ascending(S \ {m})

\* The child sets that go with the parent pointers p when every parent
\* attached its children in ascending order.
ChildrenFrom(p) ==
    [n \in DOMAIN p |->
        LET kids == {c \in DOMAIN p : p[c] = n}
        IN  IF kids = {} THEN NoChildren
            ELSE [defined |-> TRUE, items |-> Ascending(kids)]]

\* A forest of TreeNodes unbranded nodes, as a sequence of attach calls on
\* new nodes builds it.
InitTree ==
    /\ parent \in {p \in [1..TreeNodes -> 0..TreeNodes] : Acyclic(p)}
    /\ children = ChildrenFrom(parent)
    /\ brand = [n \in 1..TreeNodes |-> Undefined]
    /\ debrands = [n \in 1..TreeNodes |-> <<>>]
    /\ last = Called("new", "ok")
    /\ hier = NoHierarchy
    /\ trav = NoTraversal
    /\ map = NewMultiMap

NextTree ==
    \E this \in Nodes, includeAncestry \in BOOLEAN : Dismantle(this, includeAncestry)

SpecTree == InitTree /\ [][NextTree]_vars

\* ------------------------------------------------------------------ Hierarchy
\* Node.item of the nodes that Nodes.assembleIds creates: the id itself.
itemOf(n) == n

\* The identify function of Hierarchies.createForIds: id => id
identify(item) == item

\* An entry of Hierarchy.#debrand: the delegate that the i-th brand() call on a
\* node returned; NoDeBrand where the map has no entry.
NoDeBrand == [node |-> NoNode, i |-> 0]

\* new Hierarchy(identify): no roots, empty maps (an id without an entry maps
\* to NoNode / NoDeBrand).
NewHierarchy(ids) ==
    [roots   |-> <<>>,
     nodes   |-> [id \in ids |-> NoNode],
     debrand |-> [id \in ids |-> NoDeBrand]]

\* The state a Hierarchy operation works on: the brands, the delegates issued,
\* the links and the fields of the hierarchy `this`.
World(this) ==
    [brand |-> brand, debrands |-> debrands, parent |-> parent,
     children |-> children, h |-> hier[this], result |-> "ok"]

\* Hierarchy.#nodes.has(id)
hasNode(h, id) == h.nodes[id] # NoNode

\* Hierarchy.getNode(id): the node, or "error" when the id is not a member.
getNode(h, id) == IF hasNode(h, id) THEN h.nodes[id] ELSE "error"

\* brand without the check that the node has no brand yet.
brandIn_rebrand(b, n, owner) ==
    IF owner = Undefined
    THEN [brand |-> b, result |-> "error"]
    ELSE [brand |-> [b EXCEPT ![n] = owner], result |-> "ok"]

\* Node.brand(brand) on the brands b.
brandIn(b, n, owner) ==
    IF owner = Undefined
    THEN [brand |-> b, result |-> "error"]
    ELSE IF b[n] # Undefined
    THEN [brand |-> b, result |-> "error"]
    ELSE [brand |-> [b EXCEPT ![n] = owner], result |-> "ok"]

\* Node.isBrandCompatible(other) on the brands b.
isBrandCompatibleIn(b, this, other) ==
    IF b[this] = Undefined
    THEN (IF b[other] = Undefined THEN "true" ELSE "false")
    ELSE IF b[other] = Undefined
    THEN "false"
    ELSE IF HasEquals(b[this])
    THEN (IF b[this] = b[other] THEN "true" ELSE "false")
    ELSE "TypeError"

\* nodes.every(node => node.isBrandCompatible(this)) on the brands b.
RECURSIVE everyCompatibleIn(_, _, _, _)
everyCompatibleIn(b, this, nodes, i) ==
    IF i > Len(nodes) THEN "true"
    ELSE LET r == isBrandCompatibleIn(b, nodes[i], this)
         IN  IF r = "true" THEN everyCompatibleIn(b, this, nodes, i + 1) ELSE r

\* Node.attach(children) on the brands b.
attachIn(b, s, this, nodes) ==
    IF Len(nodes) = 0
    THEN Fail(s, "error")
    ELSE IF \E i \in 1..Len(nodes) : ~isRoot(s, nodes[i])
    THEN Fail(s, "error")
    ELSE IF everyCompatibleIn(b, this, nodes, 1) # "true"
    THEN Fail(s, IF everyCompatibleIn(b, this, nodes, 1) = "false" THEN "error" ELSE "TypeError")
    ELSE Done(attachLoop(s, this, nodes, 1))

\* The body of the loop of #addNodes for one node the traversal yields: brand
\* it, keep the delegate, index it.
addNode(w, this, n) ==
    LET id == identify(itemOf(n))
        b  == brandIn(w.brand, n, this)
    IN  IF b.result # "ok"
        THEN [w EXCEPT !.result = "error"]
        ELSE [w EXCEPT !.brand         = b.brand,
                       !.debrands[n]   = Append(@, FALSE),
                       !.h.debrand[id] = [node |-> n, i |-> Len(w.debrands[n]) + 1],
                       !.h.nodes[id]   = n]

\* for (let node of traverseGraph({ roots: nodes, next: node => node.children }))
\* The traversal is lazy: a brand() that throws ends the loop where it stands.
RECURSIVE addNodesLoop(_, _, _)
addNodesLoop(w, this, sig) ==
    LET res == traverseDescendantsPull(w, sig)
    IN  IF ~res.success
        THEN w
        ELSE LET w1 == IF res.yielded THEN addNode(w, this, res.value) ELSE w
             IN  IF w1.result # "ok"
                 THEN w1
                 ELSE addNodesLoop(w1, this, cleanup(res.sig))

\* #addNodes that brands and indexes the supplied nodes only: its traversal
\* sees no children.
addNodes_suppliedOnly(w, this, nodes) ==
    LET r == addNodesLoop([w EXCEPT !.children = [n \in DOMAIN w.children |-> NoChildren]],
                          this, GraphSignal(nodes, "breadth-first", FALSE))
    IN  [r EXCEPT !.children = w.children]

\* Hierarchy.#addNodes(nodes)
addNodes(w, this, nodes) ==
    addNodesLoop(w, this, GraphSignal(nodes, "breadth-first", FALSE))

\* attachRoot without the check that every supplied node is a root.
attachRoot_noRootCheck(w, this, nodes) ==
    LET a == addNodes(w, this, nodes)
    IN  IF a.result # "ok"
        THEN a
        ELSE [a EXCEPT !.h.roots = @ \o nodes]

\* Hierarchy.attachRoot(roots)
attachRoot(w, this, nodes) ==
    IF \E i \in 1..Len(nodes) : ~isRoot(w, nodes[i])
    THEN [w EXCEPT !.result = "error"]
    ELSE LET a == addNodes(w, this, nodes)
         IN  IF a.result # "ok"
             THEN a
             ELSE [a EXCEPT !.h.roots = @ \o nodes]

\* Hierarchy.attach(parentId, children).  The membership test throws when the
\* id IS in the map; `this.#nodes.get(parentId)!` is undefined when the id is
\* still not in the map after #addNodes, and calling attach on it is a
\* TypeError.
hierarchyAttach(w, this, parentId, nodes) ==
    IF hasNode(w.h, parentId)
    THEN [w EXCEPT !.result = "error"]
    ELSE LET a == addNodes(w, this, nodes)
         IN  IF a.result # "ok"
             THEN a
             ELSE IF ~hasNode(a.h, parentId)
             THEN [a EXCEPT !.result = "TypeError"]
             ELSE LET l == attachIn(a.brand, a, a.h.nodes[parentId], nodes)
                  IN  [a EXCEPT !.parent = l.parent, !.children = l.children,
                                !.result = l.result]

\* ------------------------------------------------------------------ Hierarchy actions
\* The name of the Hierarchy instance; it is the brand it puts on its nodes.
TheHierarchy == "H"

SetWorld(this, r) ==
    /\ brand' = r.brand
    /\ debrands' = r.debrands
    /\ parent' = r.parent
    /\ children' = r.children
    /\ hier' = [hier EXCEPT ![this] = r.h]

\* hierarchy.attachRoot(nodes)
AttachRoot(this, nodes) ==
    /\ SetWorld(this, attachRoot(World(this), this, nodes))
    /\ last' = Called("attachRoot", attachRoot(World(this), this, nodes).result)
    /\ UNCHANGED <<trav, map>>

\* hierarchy.attach(parentId, nodes)
HierarchyAttach(this, parentId, nodes) ==
    /\ SetWorld(this, hierarchyAttach(World(this), this, parentId, nodes))
    /\ last' = Called("Hierarchy.attach",
                      hierarchyAttach(World(this), this, parentId, nodes).result)
    /\ UNCHANGED <<trav, map>>

\* All orders of the elements of a set.
Orders(S) == {q \in [1..Cardinality(S) -> S] : \A i, j \in 1..Cardinality(S) : q[i] = q[j] => i = j}

\* The values Node.#children of n can have under the parent pointers p: the
\* children of n in any order of attachment, undefined when there are none.
ChildSets(p, n) ==
    LET kids == {k \in DOMAIN p : p[k] = n}
    IN  IF kids = {} THEN {NoChildren}
        ELSE {[defined |-> TRUE, items |-> q] : q \in Orders(kids)}

\* The child sets of the nodes 1..k that can go with the parent pointers p.
RECURSIVE ChildOrdersUpTo(_, _)
ChildOrdersUpTo(p, k) ==
    IF k = 0 THEN {<<>>}
    ELSE {Append(c, set) : c \in ChildOrdersUpTo(p, k - 1), set \in ChildSets(p, k)}

\* The child sets that can go with the parent pointers p.
ChildOrders(p) == ChildOrdersUpTo(p, Cardinality(DOMAIN p))

\* A forest of HierNodes nodes, some of which another owner has branded, and a
\* new Hierarchy for ids.
InitHier ==
    /\ parent \in {p \in [1..HierNodes -> 0..HierNodes] : Acyclic(p)}
    /\ children \in ChildOrders(parent)
    /\ brand \in [1..HierNodes -> {Undefined, "E"}]
    /\ debrands = [n \in 1..HierNodes |-> IF brand[n] = Undefined THEN <<>> ELSE <<FALSE>>]
    /\ last = Called("new", "ok")
    /\ hier = [h \in {TheHierarchy} |-> NewHierarchy(1..HierNodes)]
    /\ trav = NoTraversal
    /\ map = NewMultiMap

NextHier ==
    \/ \E nodes \in SeqsUpTo(Nodes, MaxArgs) : AttachRoot(TheHierarchy, nodes)
    \/ \E parentId \in Nodes, nodes \in SeqsUpTo(Nodes, MaxArgs) :
            HierarchyAttach(TheHierarchy, parentId, nodes)

SpecHier == InitHier /\ [][NextHier]_vars

\* ------------------------------------------------------------------ claims
\* The arrays of nodes the calls are tried with.
Args == SeqsUpTo(Nodes, MaxArgs)

\* C1: attach(children) on a parent fails with an error whenever the array is
\* empty, or a supplied node already has a parent, or a supplied node is not
\* brand-compatible with the parent (both unbranded, or both branded with the
\* same owner); and whenever it fails, the parent pointer and the child set
\* of every node are as before the call.
C1_AttachFailsWithoutMutation ==
    \A this \in Nodes, nodes \in Args :
        LET r == attach(Links, this, nodes)
        IN  /\ (\/ Len(nodes) = 0
                \/ \E i \in 1..Len(nodes) : parent[nodes[i]] # NoNode
                \/ \E i \in 1..Len(nodes) : brand[nodes[i]] # brand[this])
               => r.result # "ok"
            /\ r.result # "ok" => r.parent = parent /\ r.children = children

\* An attach call has just failed in a structure with links and brands.
C1_Witness ==
    /\ last = Called("attach", "error")
    /\ \E n \in Nodes : parent[n] # NoNode
    /\ \E n \in Nodes : brand[n] # Undefined /\ parent[n] = NoNode

\* C2: after any sequence of attach, detach, detachSelf and dismantle calls the
\* parent chain of every node is acyclic: it reaches a root in finitely many
\* steps, and no node is its own parent or ancestor.
C2_ParentChainsAcyclic == Acyclic(parent)

\* C3: whenever A.attach(nodes) with an unbranded B among the nodes succeeds,
\* B.detachSelf() right after it succeeds too, and then B is a root, B is not
\* in the child set of A, the other nodes are as the attach left them, A is
\* a leaf with no child set if B was its only child, and when B was attached
\* alone every parent pointer and child set is as before the attach.
C3_AttachThenDetachSelfRestores ==
    \A A \in Nodes, B \in Nodes, nodes \in Args :
        (/\ B \in Range(nodes)
         /\ brand[B] = Undefined
         /\ attach(Links, A, nodes).result = "ok")
        => LET s1 == attach(Links, A, nodes)
               s2 == detachSelf(s1, B)
           IN  /\ s2.result = "ok"
               /\ s2.parent[B] = NoNode
               /\ B \notin Range(childrenOf(s2, A))
               /\ childrenOf(s2, A) = SetDelete(childrenOf(s1, A), B)
               /\ \A n \in Nodes \ {B} : s2.parent[n] = s1.parent[n]
               /\ \A n \in Nodes \ {A} : s2.children[n] = s1.children[n]
               /\ Range(childrenOf(s1, A)) = {B} => isLeaf(s2, A) /\ s2.children[A] = NoChildren
               /\ Range(nodes) = {B} => s2.parent = parent /\ s2.children = children

\* A detachSelf has just succeeded and left the node a root again, next to a
\* parent that kept another child.
C3_Witness ==
    /\ last = Called("detachSelf", "ok")
    /\ \E A \in Nodes, B \in Nodes :
          /\ A # B
          /\ parent[B] = NoNode
          /\ children[B] = NoChildren
          /\ Len(childrenOf(Links, A)) = 1

\* n is a proper descendant of a: a is a proper ancestor of n.
IsDescendant(n, a) == IsAncestor(parent, a, n)

\* The cascade of this.dismantle(includeAncestry) has to detach n.
CascadeReaches(this, includeAncestry, n) ==
    \/ IsDescendant(n, this)
    \/ includeAncestry /\ parent[n] # NoNode /\ (n = this \/ IsDescendant(this, n))
    \/ includeAncestry /\ \E a \in Nodes : IsDescendant(this, a) /\ IsDescendant(n, a)

\* C4: while a node is branded and has a parent, no call removes it from that
\* parent: its parent pointer is the same after every step that leaves it
\* branded or not, and detach naming it, its own detachSelf, and every
\* dismantle whose cascade reaches it fail with an error.
C4_BrandedStaysAttached ==
    /\ [][\A n \in Nodes :
            brand[n] # Undefined /\ parent[n] # NoNode => parent'[n] = parent[n]]_vars
    /\ [](\A n \in Nodes :
            brand[n] # Undefined /\ parent[n] # NoNode =>
               /\ detachSelf(Links, n).result = "error"
               /\ \A this \in Nodes, nodes \in Args :
                      n \in Range(nodes) => detach(Links, this, nodes).result = "error"
               /\ \A this \in Nodes, includeAncestry \in BOOLEAN :
                      CascadeReaches(this, includeAncestry, n)
                      => dismantle(Links, this, includeAncestry).result = "error")

\* A dismantle has just failed and a branded node still has its parent.
C4_Witness ==
    /\ last.op \in {"dismantle(true)", "dismantle(false)"}
    /\ last.result = "error"
    /\ \E n \in Nodes : brand[n] # Undefined /\ parent[n] # NoNode

\* C5: brand(owner) succeeds exactly when the node has no brand and owner is
\* defined, and then the node is branded with owner; otherwise it fails with
\* an error and the brand of the node, or its absence, is unchanged.
C5_BrandPreconditions ==
    \A n \in Nodes, owner \in Owners \cup {Undefined} :
        LET r == brandOf(n, owner)
        IN  /\ r.result = "ok" <=> (brand[n] = Undefined /\ owner # Undefined)
            /\ r.result = "ok" => r.brand = owner
            /\ r.result # "ok" => r.result = "error" /\ r.brand = brand[n]

\* A brand call has just failed on a node that keeps the brand it had.
C5_Witness ==
    /\ last = Called("brand", "error")
    /\ \E n \in Nodes : brand[n] # Undefined

\* C6: the delegate that brand() returns is single-use: its first call clears
\* the brand that this brand() call set, and every later call of it leaves
\* the brand of the node as it is, also when the node has been branded again
\* by another brand() call in the meantime.
C6_DeBrandSingleUse ==
    [][\A n \in Nodes : \A i \in 1..Len(debrands[n]) :
          Release(n, i) =>
             /\ debrands[n][i] => brand' = brand
             /\ (~debrands[n][i] /\ i = Len(debrands[n])) => brand'[n] = Undefined]_vars

\* C7: isBrandCompatible(other) answers true when both nodes are unbranded or
\* both are branded with the same owner, and false, without raising an
\* error, in every other case; so it answers true for two nodes branded
\* with the same Hierarchy.
C7_BrandCompatibility ==
    \A a \in Nodes, b \in Nodes :
        a # b => isBrandCompatible(a, b) = (IF brand[a] = brand[b] THEN "true" ELSE "false")

\* C8: detach(children) on a parent succeeds exactly when the array is not
\* empty, every supplied node is a child of the parent and none of them is
\* branded; then every supplied node is a root and no longer in the child
\* set of the parent, which is a leaf when it lost its last child, and the
\* other links are as before; when it fails no parent pointer and no child
\* set is changed.
C8_DetachPreconditions ==
    \A this \in Nodes, nodes \in Args :
        LET r == detach(Links, this, nodes)
        IN  /\ r.result = "ok" <=>
                  /\ Len(nodes) > 0
                  /\ \A i \in 1..Len(nodes) : parent[nodes[i]] = this
                  /\ \A i \in 1..Len(nodes) : brand[nodes[i]] = Undefined
            /\ r.result = "ok" =>
                  /\ \A i \in 1..Len(nodes) :
                        r.parent[nodes[i]] = NoNode /\ nodes[i] \notin Range(childrenOf(r, this))
                  /\ Range(childrenOf(r, this)) = Range(childrenOf(Links, this)) \ Range(nodes)
                  /\ Range(childrenOf(Links, this)) \subseteq Range(nodes)
                        => isLeaf(r, this) /\ r.children[this] = NoChildren
                  /\ \A n \in Nodes \ Range(nodes) : r.parent[n] = parent[n]
                  /\ \A n \in Nodes \ {this} : r.children[n] = children[n]
            /\ r.result # "ok" => r.result = "error" /\ r.parent = parent /\ r.children = children

\* A detach has just succeeded and left a parent with one child.
C8_Witness ==
    /\ last = Called("detach", "ok")
    /\ \E p \in Nodes : Len(childrenOf(Links, p)) = 1
    /\ \E n \in Nodes : parent[n] = NoNode /\ brand[n] = Undefined /\ children[n] = NoChildren

\* The nodes of the subtree of n: n and its proper descendants.
Subtree(n) == {n} \cup {m \in Nodes : IsDescendant(m, n)}

\* The nodes of the tree of n.
TreeOf(n) == {m \in Nodes : RootOf(parent, m) = RootOf(parent, n)}

\* C9: with no node branded, N.dismantle(true) on a node of a tree leaves every
\* node of that tree with no parent and no children; N.dismantle(false) leaves
\* N and its proper descendants without children and the proper descendants
\* without a parent, while the parent link of N and everything outside the
\* subtree of N are unchanged.
C9_DismantleIsolates ==
    (\A n \in Nodes : brand[n] = Undefined) =>
    \A N \in Nodes :
        LET up   == dismantle(Links, N, TRUE)
            down == dismantle(Links, N, FALSE)
        IN  /\ up.result = "ok"
            /\ \A m \in TreeOf(N) : up.parent[m] = NoNode /\ up.children[m] = NoChildren
            /\ down.result = "ok"
            /\ \A m \in Subtree(N) : isLeaf(down, m) /\ down.children[m] = NoChildren
            /\ \A m \in Subtree(N) \ {N} : down.parent[m] = NoNode
            /\ down.parent[N] = parent[N]
            /\ \A m \in Nodes \ Subtree(N) :
                  down.parent[m] = parent[m] /\ down.children[m] = children[m]

\* A dismantle(true) has just succeeded and every node is isolated.
C9_Witness ==
    /\ last = Called("dismantle(true)", "ok")
    /\ \A n \in Nodes : parent[n] = NoNode /\ children[n] = NoChildren

\* C10 as stated: dismantle is atomic with respect to brands: when a node that
\* the cascade has to detach is branded, dismantle fails with an error and no
\* parent pointer and no child set of any node has been changed.  (Stated for
\* acyclic links, so that what refutes it is the cascade alone.)
C10_DismantleAtomic ==
    \A this \in Nodes, includeAncestry \in BOOLEAN :
        (/\ Acyclic(parent)
         /\ \E n \in Nodes : brand[n] # Undefined /\ CascadeReaches(this, includeAncestry, n))
        => LET r == dismantle(Links, this, includeAncestry)
           IN  r.result = "error" /\ r.parent = parent /\ r.children = children

\* C10 as amended: when a node that the cascade has to detach is branded,
\* dismantle fails with an error, and the failed call has only removed
\* links: every node has the parent it had or none, every child set has
\* lost the nodes that lost their parent and nothing else, and every
\* branded node has the parent it had.  The nodes detached before the
\* cascade met the branded node stay detached.
C10_DismantleFailsPartially ==
    \A this \in Nodes, includeAncestry \in BOOLEAN :
        (\E n \in Nodes : brand[n] # Undefined /\ CascadeReaches(this, includeAncestry, n))
        => LET r == dismantle(Links, this, includeAncestry)
           IN  /\ r.result = "error"
               /\ \A m \in Nodes :
                     /\ r.parent[m] \in {parent[m], NoNode}
                     /\ brand[m] # Undefined => r.parent[m] = parent[m]
                     /\ Range(childrenOf(r, m)) = {c \in Range(childrenOf(Links, m)) : r.parent[c] = m}

\* A dismantle(true) has just failed half way: a branded node is still the
\* only child of its parent, next to an unbranded node left isolated.
C10_Witness ==
    /\ last = Called("dismantle(true)", "error")
    /\ \E n \in Nodes :
          /\ brand[n] # Undefined
          /\ parent[n] # NoNode
          /\ childrenOf(Links, parent[n]) = <<n>>
    /\ \E m \in Nodes : brand[m] = Undefined /\ parent[m] = NoNode /\ children[m] = NoChildren

\* The nodes reachable from the nodes of S through at most k child links.
RECURSIVE ChildClosure(_, _)
ChildClosure(S, k) ==
    IF k = 0 THEN S
    ELSE ChildClosure(S \cup UNION {Range(childrenOf(Links, n)) : n \in S}, k - 1)

\* The nodes reachable through child links from the nodes of S.
ReachableFrom(S) == ChildClosure(S, Cardinality(Nodes))

C12_AttachToMemberSucceeds ==
    \A h \in DOMAIN hier : \A parentId \in Nodes, nodes \in Args :
        (/\ Len(nodes) > 0
         /\ hasNode(hier[h], parentId)
         /\ \A i \in 1..Len(nodes) : isRoot(Links, nodes[i])
         /\ \A n \in ReachableFrom(Range(nodes)) : brand[n] = Undefined)
        => LET r == hierarchyAttach(World(h), h, parentId, nodes)
               p == getNode(hier[h], parentId)
           IN  /\ r.result = "ok"
               /\ \A i \in 1..Len(nodes) :
                     /\ r.parent[nodes[i]] = p
                     /\ nodes[i] \in Range(childrenOf(r, p))
               /\ \A n \in ReachableFrom(Range(nodes)) :
                     /\ hasNode(r.h, identify(itemOf(n)))
                     /\ getNode(r.h, identify(itemOf(n))) = n
                     /\ r.brand[n] = h

\* C13: Hierarchy.attach(parentId, children) with a parentId that is not in the
\* lookup map fails and mutates nothing: the lookup map and the root list are
\* unchanged, and none of the children or their descendants is branded or
\* indexed by the call.
C13_AttachToNonMemberFailsCleanly ==
    \A h \in DOMAIN hier : \A parentId \in Nodes, nodes \in Args :
        (/\ Len(nodes) > 0
         /\ ~hasNode(hier[h], parentId)
         /\ \A i \in 1..Len(nodes) : isRoot(Links, nodes[i]))
        => LET r == hierarchyAttach(World(h), h, parentId, nodes)
           IN  /\ r.result # "ok"
               /\ r.h.nodes = hier[h].nodes
               /\ r.h.roots = hier[h].roots
               /\ \A n \in ReachableFrom(Range(nodes)) : r.brand[n] = brand[n]

\* attachRoot(nodes) fails and leaves the root list, the lookup map and every
\* brand as they were.
AttachRootRefused(h, nodes) ==
    LET r == attachRoot(World(h), h, nodes)
    IN  /\ r.result = "error"
        /\ r.h.roots = hier[h].roots
        /\ r.h.nodes = hier[h].nodes
        /\ r.brand = brand

\* attachRoot(nodes) succeeds, appends the supplied nodes in order to the root
\* list, and indexes and brands every node of their subtrees.
AttachRootDone(h, nodes) ==
    LET r == attachRoot(World(h), h, nodes)
    IN  /\ r.result = "ok"
        /\ r.h.roots = hier[h].roots \o nodes
        /\ \A n \in ReachableFrom(Range(nodes)) :
              /\ hasNode(r.h, identify(itemOf(n)))
              /\ getNode(r.h, identify(itemOf(n))) = n
              /\ r.brand[n] = h

\* Every supplied node is an unbranded root with an unbranded subtree.
UnbrandedRoots(nodes) ==
    /\ \A i \in 1..Len(nodes) : isRoot(Links, nodes[i])
    /\ \A n \in ReachableFrom(Range(nodes)) : brand[n] = Undefined

GraphTypes == {Undefined, "breadth-first", "depth-first"}

\* traverseGraph(options) before its first pull: the signal built from the
\* options, the `next` function as the successors of every node, and the
\* record of what the traversal does: `pulls` holds the nodes detached from the
\* frontier; `calls` holds, per call of the consumer's function, the node it
\* was called with, what it observed on the signal and what it did; `out`
\* holds the nodes yielded.  `reached` holds, for every node in the frontier
\* (sig.nodes), the depth at which it was reached: 0 for a root, one more than
\* the depth of the node whose next() call put it there.
traverseGraph(edges, roots, type, detectCycles) ==
    [started |-> TRUE,
     edges   |-> edges,
     roots   |-> roots,
     type    |-> type,
     sig     |-> GraphSignal(roots, type, detectCycles),
     reached |-> [i \in 1..Len(roots) |-> 0],
     pulls   |-> <<>>,
     calls   |-> <<>>,
     out     |-> <<>>,
     done    |-> FALSE]

\* The nodes that tryGetNext detaches from the frontier and discards because
\* they are in the visited set, before the node it returns or the end.
RECURSIVE discarded(_)
discarded(sig) ==
    LET res == tryGetNextInternal(sig)
    IN  IF ~sig.detectCycles \/ ~res.success \/ res.value \notin res.sig.visited
        THEN <<>>
        ELSE <<res.value>> \o discarded(res.sig)

\* The calls script[i], script[i+1], ... that a callback makes on the signal,
\* each "next" (with the nodes `passed`), "skip" or "end", applied in order to
\* st = [sig, reached]; depth is the depth at which the node of the callback
\* was reached.
RECURSIVE runCallback(_, _, _, _, _)
runCallback(st, script, passed, depth, i) ==
    IF i > Len(script) THEN st
    ELSE runCallback(
            IF script[i] = "next"
            THEN [sig     |-> signalNext(st.sig, passed),
                  reached |-> linearAttach([st.sig EXCEPT !.nodes = st.reached],
                                           [k \in 1..Len(passed) |-> depth + 1])]
            ELSE IF script[i] = "skip"
            THEN [sig |-> signalSkip(st.sig), reached |-> st.reached]
            ELSE [sig |-> signalEnd(st.sig), reached |-> <<>>],
            script, passed, depth, i + 1)

\* One round of the loop of traverseGraph: pull a node; when there is none the
\* traversal ends; otherwise run the consumer's function, which makes the
\* calls of `script` on the signal, yield the node when the signal says so,
\* and clean up.
traverseCallback(t, script, passed) ==
    LET res  == tryGetNext(t.sig)
        gone == Len(discarded(t.sig))
    IN  IF ~res.success
        THEN [t EXCEPT !.sig = res.sig, !.done = TRUE, !.reached = <<>>,
                       !.pulls = @ \o discarded(t.sig)]
        ELSE LET depth == t.reached[gone + 1]
                 st    == runCallback([sig     |-> res.sig,
                                       reached |-> SubSeq(t.reached, gone + 2, Len(t.reached))],
                                      script, passed, depth, 1)
             IN  [t EXCEPT !.sig     = cleanup(st.sig),
                           !.reached = st.reached,
                           !.pulls   = @ \o discarded(t.sig) \o <<res.value>>,
                           !.out     = IF shouldYield(st.sig) THEN Append(@, res.value) ELSE @,
                           !.calls   = Append(@, [node    |-> res.value,
                                                  count   |-> res.sig.count,
                                                  depth   |-> res.sig.depth,
                                                  reached |-> depth,
                                                  frames  |-> res.sig.branchCount,
                                                  passed  |-> IF "next" \in Range(script)
                                                              THEN passed ELSE <<>>,
                                                  skip    |-> "skip" \in Range(script),
                                                  end     |-> "end" \in Range(script),
                                                  script  |-> script])]

\* One round in which the consumer's function passes the nodes `passed` to
\* signal.next when callNext, and calls signal.skip when skip.
traverseRound(t, callNext, passed, skip) ==
    traverseCallback(t, (IF callNext THEN <<"next">> ELSE <<>>)
                        \o (IF skip THEN <<"skip">> ELSE <<>>), passed)

\* The node the next round pulls (NoNode when the frontier has run out).
Pulled(t) == tryGetNext(t.sig).value

\* One round with options.next: signal.next(options.next(node)), no skip.
traverseWithNext(t) ==
    IF tryGetNext(t.sig).success
    THEN traverseRound(t, TRUE, t.edges[Pulled(t)], FALSE)
    ELSE traverseRound(t, FALSE, <<>>, FALSE)

\* Node.traverseDescendants(options)
traverseDescendants(s, this, excludeSelf, type) ==
    traverseGraph([n \in DOMAIN s.parent |-> childrenOf(s, n)],
                  IF excludeSelf THEN childrenOf(s, this) ELSE <<this>>,
                  type, FALSE)

\* The consumer resumes a traversal that uses options.next.
TraverseWithNext ==
    /\ trav.started /\ ~trav.done
    /\ trav' = traverseWithNext(trav)
    /\ UNCHANGED <<parent, children, brand, debrands, last, hier, map>>

\* A forest of TravNodes nodes and a traversal of the descendants of one of
\* them that has not been pulled from yet.
InitTrav ==
    /\ parent \in {p \in [1..TravNodes -> 0..TravNodes] : Acyclic(p)}
    /\ children \in ChildOrders(parent)
    /\ brand = [n \in 1..TravNodes |-> Undefined]
    /\ debrands = [n \in 1..TravNodes |-> <<>>]
    /\ last = Called("new", "ok")
    /\ hier = NoHierarchy
    /\ map = NewMultiMap
    /\ trav \in {traverseDescendants(Links, this, excludeSelf, type) :
                    this \in 1..TravNodes, excludeSelf \in BOOLEAN, type \in GraphTypes}

NextTrav == TraverseWithNext

SpecTrav == InitTrav /\ [][NextTrav]_vars

\* The nodes reachable from the nodes of S through at most k edges.
RECURSIVE EdgeClosure(_, _, _)
EdgeClosure(edges, S, k) ==
    IF k = 0 THEN S
    ELSE EdgeClosure(edges, S \cup UNION {Range(edges[n]) : n \in S}, k - 1)

\* The nodes a traversal can reach: its roots and what `next` leads to.
Reach(t) == EdgeClosure(t.edges, Range(t.roots), Cardinality(DOMAIN t.edges))

\* The depth of a node of a tree below the roots of the traversal.
RECURSIVE TreeDepth(_, _)
TreeDepth(t, n) ==
    IF n \in Range(t.roots) \/ parent[n] = NoNode THEN 0
    ELSE 1 + TreeDepth(t, parent[n])

NoRepeats(q) == \A i, j \in 1..Len(q) : q[i] = q[j] => i = j

\* The next pull of a traversal with options.next either ends the traversal or
\* yields one more node.
PullProgresses(t) ==
    \/ t.done
    \/ traverseWithNext(t).done
    \/ Len(traverseWithNext(t).out) = Len(t.out) + 1

\* The traversal was asked for breadth-first order (the default type).
IsBreadthFirst == trav.started /\ trav.type # "depth-first"

\* The traversal was asked for depth-first order.
IsDepthFirst == trav.started /\ trav.type = "depth-first"

\* C15: a breadth-first traversal (the default type) with the default next over
\* a finite tree comes to an end -- every pull ends it or yields one more node,
\* and no node is yielded twice -- and yields every reachable node exactly
\* once, in non-decreasing depth order.
C15_BreadthFirstOrder ==
    IsBreadthFirst =>
        /\ NoRepeats(trav.out)
        /\ Range(trav.out) \subseteq Reach(trav)
        /\ PullProgresses(trav)
        /\ \A i, j \in 1..Len(trav.out) :
              i < j => TreeDepth(trav, trav.out[i]) <= TreeDepth(trav, trav.out[j])
        /\ trav.done => Range(trav.out) = Reach(trav)

\* A breadth-first traversal has ended after yielding nodes of three depths,
\* two of them at the same depth.
C15_Witness ==
    /\ IsBreadthFirst
    /\ trav.done
    /\ \E i \in 1..Len(trav.out) : TreeDepth(trav, trav.out[i]) = 2
    /\ \E i, j \in 1..Len(trav.out) :
          i # j /\ TreeDepth(trav, trav.out[i]) = TreeDepth(trav, trav.out[j])

\* C16: a depth-first traversal with the default next over a finite tree comes
\* to an end -- every pull ends it or yields one more node, and no node is
\* yielded twice -- and yields every reachable node exactly once, each node
\* before its descendants, and all descendants of a yielded node contiguously
\* right after it, before any sibling that has not been yielded yet.
C16_DepthFirstOrder ==
    IsDepthFirst =>
        /\ NoRepeats(trav.out)
        /\ Range(trav.out) \subseteq Reach(trav)
        /\ PullProgresses(trav)
        /\ \A i, j \in 1..Len(trav.out) :
              i < j => ~IsAncestor(parent, trav.out[j], trav.out[i])
        /\ \A i, j \in 1..Len(trav.out) :
              (i < j /\ ~IsAncestor(parent, trav.out[i], trav.out[j]))
              => \A d \in Reach(trav) :
                    IsAncestor(parent, trav.out[i], d)
                    => \E k \in (i + 1)..(j - 1) : trav.out[k] = d
        /\ trav.done => Range(trav.out) = Reach(trav)

\* A depth-first traversal has ended after yielding a node, then a descendant
\* of it, and later a sibling of the node.
C16_Witness ==
    /\ IsDepthFirst
    /\ trav.done
    /\ \E i, k \in 1..Len(trav.out) :
          /\ i + 1 < k
          /\ IsAncestor(parent, trav.out[i], trav.out[i + 1])
          /\ parent[trav.out[i]] # NoNode
          /\ parent[trav.out[k]] = parent[trav.out[i]]

\* The position of x in the array q (0 when it is not in it).
IndexOf(q, x) == IF x \in Range(q) THEN CHOOSE i \in 1..Len(q) : q[i] = x ELSE 0

\* a and b are siblings, or both roots of the traversal, and a comes before b
\* in the child set of their parent, respectively in the array of roots.
InsertedBefore(t, a, b) ==
    \/ /\ a \in Range(t.roots) /\ b \in Range(t.roots)
       /\ IndexOf(t.roots, a) < IndexOf(t.roots, b)
    \/ /\ a \notin Range(t.roots) /\ b \notin Range(t.roots)
       /\ parent[a] = parent[b]
       /\ IndexOf(childrenOf(Links, parent[a]), a) < IndexOf(childrenOf(Links, parent[a]), b)

\* The tree A -> [B, C], B -> [D] with A = 1, B = 2, C = 3, D = 4, traversed
\* from A.
IsExampleTree ==
    /\ trav.started
    /\ parent = <<NoNode, 1, 1, 2>>
    /\ childrenOf(Links, 1) = <<2, 3>>
    /\ trav.roots = <<1>>

\* C17: in both modes siblings, and the supplied roots, are yielded in the
\* order in which they were inserted; for A -> [B, C], B -> [D] the traversal
\* of the descendants of A, A included, yields [A, B, C, D] breadth-first and
\* [A, B, D, C] depth-first.
C17_InsertionOrder ==
    /\ \A i, j \in 1..Len(trav.out) :
          InsertedBefore(trav, trav.out[i], trav.out[j]) => i < j
    /\ (IsExampleTree /\ trav.done)
       => trav.out = IF trav.type = "depth-first" THEN <<1, 2, 4, 3>> ELSE <<1, 2, 3, 4>>

\* The depth-first traversal of the example tree has ended.
C17_Witness ==
    /\ IsExampleTree
    /\ trav.done
    /\ trav.type = "depth-first"
    /\ Len(trav.out) = 4

\* ------------------------------------------------------------------ graphs
\* GraphNodes nodes, a `next` function that leads from every node to any array
\* of at most MaxEdges of them (self-loops, back-edges, repeated and shared
\* successors included), and a traversal with cycle detection from node 1 or
\* from an array of two roots that starts with node 1.
InitGraph ==
    /\ parent = [n \in 1..GraphNodes |-> NoNode]
    /\ children = [n \in 1..GraphNodes |-> NoChildren]
    /\ brand = [n \in 1..GraphNodes |-> Undefined]
    /\ debrands = [n \in 1..GraphNodes |-> <<>>]
    /\ last = Called("new", "ok")
    /\ hier = NoHierarchy
    /\ map = NewMultiMap
    /\ trav \in {traverseGraph(edges, roots, type, TRUE) :
                    edges \in [1..GraphNodes -> SeqsUpTo(1..GraphNodes, MaxEdges)],
                    roots \in {<<1>>, <<1, 1>>, <<1, 2>>},
                    type \in {Undefined, "depth-first"}}

NextGraph == TraverseWithNext

SpecGraph == InitGraph /\ [][NextGraph]_vars

\* The elements of q in the order of their first occurrence.
RECURSIVE FirstOccurrences(_)
FirstOccurrences(q) ==
    IF Len(q) = 0 THEN <<>>
    ELSE LET front == FirstOccurrences(SubSeq(q, 1, Len(q) - 1))
         IN  IF q[Len(q)] \in Range(front) THEN front ELSE Append(front, q[Len(q)])

\* C18: with cycle detection, a traversal over any finite graph (back-edges,
\* self-loops, nodes reachable by several paths) comes to an end -- every pull
\* ends it or yields one more node, and no node is yielded twice -- and yields
\* each reachable node exactly once, in the order in which the nodes are first
\* pulled from the frontier; a pulled node that was visited before is
\* discarded: the consumer's function is not called with it and it is not
\* yielded.  This holds in both modes.
C18_CycleDetection ==
    /\ NoRepeats(trav.out)
    /\ trav.out = FirstOccurrences(trav.pulls)
    /\ [i \in 1..Len(trav.calls) |-> trav.calls[i].node] = trav.out
    /\ Range(trav.out) \subseteq Reach(trav)
    /\ PullProgresses(trav)
    /\ trav.done => Range(trav.out) = Reach(trav)

\* A depth-first traversal of a graph with a self-loop has ended after
\* yielding every node and discarding pulled nodes.
C18_Witness ==
    /\ trav.done
    /\ trav.type = "depth-first"
    /\ Len(trav.out) = GraphNodes
    /\ Len(trav.pulls) > Len(trav.out)
    /\ \E n \in Range(trav.out) : n \in Range(trav.edges[n])

\* ------------------------------------------------------------------ ancestors
\* SequenceSignal.constructor; NoNode stands for an undefined element.
SequenceSignal(first) == [element |-> first, index |-> -1, count |-> 0, skipped |-> FALSE]

\* SequenceSignal.next(element)
sequenceNext(sig, element) == [sig EXCEPT !.element = element]

\* SequenceSignal.shouldYield()
sequenceShouldYield(sig) == ~sig.skipped

\* SequenceSignal.cleanup()
sequenceCleanup(sig) == [sig EXCEPT !.count = IF sig.skipped THEN @ ELSE @ + 1]

\* SequenceSignal.tryGetNext(): [success, value, sig]
sequenceTryGetNext(sig) ==
    IF sig.element # NoNode
    THEN [success |-> TRUE, value |-> sig.element,
          sig |-> [sig EXCEPT !.skipped = FALSE, !.element = NoNode, !.index = @ + 1]]
    ELSE [success |-> FALSE, value |-> NoNode, sig |-> sig]

\* The loop of traverseSequence({ first, next }), run to its end: pull an
\* element, hand next(element) to the signal, yield the element when the
\* signal says so, clean up.  The `next` function is given by the node (or
\* NoNode) it returns for every node.
RECURSIVE traverseSequenceFrom(_, _)
traverseSequenceFrom(sig, next) ==
    LET res == sequenceTryGetNext(sig)
    IN  IF ~res.success
        THEN <<>>
        ELSE LET sig1 == sequenceNext(res.sig, next[res.value])
             IN  (IF sequenceShouldYield(sig1) THEN <<res.value>> ELSE <<>>)
                 \o traverseSequenceFrom(sequenceCleanup(sig1), next)

\* traverseSequence({ first, next })
traverseSequence(first, next) == traverseSequenceFrom(SequenceSignal(first), next)

\* getAncestors that starts at the node whatever excludeSelf says.
getAncestors_alwaysSelf(s, this, excludeSelf) == traverseSequence(this, s.parent)

\* Node.getAncestors(options) = [...this.traverseAncestors(options)]
getAncestors(s, this, excludeSelf) ==
    traverseSequence(IF excludeSelf THEN s.parent[this] ELSE this, s.parent)

\* nodesToItems(nodes)
nodesToItems(nodes) == [i \in 1..Len(nodes) |-> itemOf(nodes[i])]

\* nodesToIds(nodes, identify)
nodesToIds(nodes) == [i \in 1..Len(nodes) |-> identify(itemOf(nodes[i]))]

\* Hierarchy.getAncestorNodes({ id, excludeSelf })
getAncestorNodes(h, s, id, excludeSelf) ==
    IF ~hasNode(h, id) THEN <<"error">> ELSE getAncestors(s, getNode(h, id), excludeSelf)

\* Hierarchy.getAncestors({ id, excludeSelf })
getAncestorItems(h, s, id, excludeSelf) ==
    IF ~hasNode(h, id) THEN <<"error">>
    ELSE nodesToItems(getAncestors(s, getNode(h, id), excludeSelf))

\* Hierarchy.getAncestorIds({ id, excludeSelf })
getAncestorIds(h, s, id, excludeSelf) ==
    IF ~hasNode(h, id) THEN <<"error">>
    ELSE nodesToIds(getAncestors(s, getNode(h, id), excludeSelf))

\* q is the chain from n up to its root: n first, every next element the
\* parent of the one before, a root last.
IsChainToRoot(q, n) ==
    /\ Len(q) > 0
    /\ q[1] = n
    /\ \A i \in 1..(Len(q) - 1) : q[i + 1] = parent[q[i]]
    /\ parent[q[Len(q)]] = NoNode

\* C19: Node.getAncestors returns the chain from the node to its root, nearest
\* first and the node included, and with excludeSelf: true the same chain
\* without the node (empty for a root); for the id of a member,
\* Hierarchy.getAncestorNodes / getAncestors / getAncestorIds return the nodes,
\* the items and the ids of these chains (D below B below A: [D, B, A], and
\* [B, A] with excludeSelf).
C19_AncestorChains ==
    \A n \in Nodes :
        LET q == getAncestors(Links, n, FALSE)
            x == getAncestors(Links, n, TRUE)
        IN  /\ IsChainToRoot(q, n)
            /\ x = Tail(q)
            /\ isRoot(Links, n) => x = <<>>
            /\ \A h \in DOMAIN hier :
                  hasNode(hier[h], identify(itemOf(n)))
                  => LET id == identify(itemOf(n))
                     IN  /\ getAncestorNodes(hier[h], Links, id, FALSE) = q
                         /\ getAncestorNodes(hier[h], Links, id, TRUE) = x
                         /\ getAncestorItems(hier[h], Links, id, FALSE) = nodesToItems(q)
                         /\ getAncestorItems(hier[h], Links, id, TRUE) = nodesToItems(x)
                         /\ getAncestorIds(hier[h], Links, id, FALSE) = nodesToIds(q)
                         /\ getAncestorIds(hier[h], Links, id, TRUE) = nodesToIds(x)

\* A member of the hierarchy is the grandchild of a root of the hierarchy.
C19_Witness ==
    \E h \in DOMAIN hier : \E n \in Nodes :
        /\ hasNode(hier[h], identify(itemOf(n)))
        /\ parent[n] # NoNode
        /\ parent[parent[n]] # NoNode
        /\ parent[parent[n]] \in Range(hier[h].roots)
        /\ getAncestorIds(hier[h], Links, identify(itemOf(n)), TRUE) = <<parent[n], parent[parent[n]]>>

\* ------------------------------------------------------------------ signal callback
\* The consumer resumes a traversal that uses options.signal: the callback is
\* called with the pulled node and the signal; it passes the children of the
\* node to signal.next or passes nothing, and it calls signal.skip or not.
TraverseWithSignal(callNext, skip) ==
    /\ trav.started /\ ~trav.done
    /\ trav' = traverseRound(trav, callNext /\ tryGetNext(trav.sig).success,
                             IF tryGetNext(trav.sig).success
                             THEN trav.edges[Pulled(trav)] ELSE <<>>,
                             skip /\ tryGetNext(trav.sig).success)
    /\ UNCHANGED <<parent, children, brand, debrands, last, hier, map>>

\* A forest of SignalNodes nodes and a traversal, not yet pulled from, of a
\* node and its descendants or of its children and their descendants.
InitSignal ==
    /\ parent \in {p \in [1..SignalNodes -> 0..SignalNodes] : Acyclic(p)}
    /\ children \in ChildOrders(parent)
    /\ brand = [n \in 1..SignalNodes |-> Undefined]
    /\ debrands = [n \in 1..SignalNodes |-> <<>>]
    /\ last = Called("new", "ok")
    /\ hier = NoHierarchy
    /\ map = NewMultiMap
    /\ trav \in {traverseDescendants(Links, this, excludeSelf, type) :
                    this \in 1..SignalNodes, excludeSelf \in BOOLEAN,
                    type \in {Undefined, "depth-first"}}

NextSignal == \E callNext \in BOOLEAN, skip \in BOOLEAN : TraverseWithSignal(callNext, skip)

SpecSignal == InitSignal /\ [][NextSignal]_vars

\* The nodes of the calls of the callback that did not call skip, in order.
NotSkipped(calls) ==
    LET kept == SelectSeq(calls, LAMBDA c : ~c.skip)
    IN  [i \in 1..Len(kept) |-> kept[i].node]

\* C20: in a traversal with a signal callback, signal.skip() suppresses exactly
\* the node of that call: the nodes yielded are the nodes of the calls that
\* did not skip, in order, and a skipped node does not raise signal.count; the
\* nodes passed to signal.next() in a call, skipping or not, are visited
\* later; and the signal.count that a call observes is the number of nodes
\* yielded before it.
C20_SkipSuppressesOneNode ==
    /\ trav.out = NotSkipped(trav.calls)
    /\ trav.sig.count = Len(trav.out)
    /\ \A i \in 1..Len(trav.calls) :
          trav.calls[i].count = Len(NotSkipped(SubSeq(trav.calls, 1, i - 1)))
    /\ trav.done =>
          \A i \in 1..Len(trav.calls) : \A m \in Range(trav.calls[i].passed) :
              \E j \in (i + 1)..Len(trav.calls) : trav.calls[j].node = m

\* A traversal has ended in which a call skipped its node and passed children
\* to next, and a later call on one of these children did not skip.
C20_Witness ==
    /\ trav.done
    /\ \E i, j \in 1..Len(trav.calls) :
          /\ i < j
          /\ trav.calls[i].skip
          /\ trav.calls[j].node \in Range(trav.calls[i].passed)
          /\ ~trav.calls[j].skip

\* ------------------------------------------------------------------ signal.end
\* The orders in which a callback can make each of the calls next, skip and end
\* on the signal at most once.
SignalCalls == {"next", "skip", "end"}

Scripts == {q \in SeqsUpTo(SignalCalls, Cardinality(SignalCalls)) : NoRepeats(q)}

\* The consumer resumes a traversal that uses options.signal: the callback is
\* called with the pulled node and the signal and makes the calls of `script`
\* in order, passing the children of the node when it calls next.
TraverseWithCallback(script) ==
    /\ trav.started /\ ~trav.done
    /\ trav' = IF tryGetNext(trav.sig).success
               THEN traverseCallback(trav, script, trav.edges[Pulled(trav)])
               ELSE traverseCallback(trav, <<>>, <<>>)
    /\ UNCHANGED <<parent, children, brand, debrands, last, hier, map>>

NextEnd == \E script \in Scripts : TraverseWithCallback(script)

SpecEnd == InitSignal /\ [][NextEnd]_vars

\* C21: a call of the callback that calls signal.end() is the last call of the
\* traversal, whatever the frontier held and whatever other calls (next, skip)
\* the same callback makes, and its node is yielded unless that call skipped:
\* the nodes yielded are the nodes of the calls that did not skip.
C21_EndTerminates ==
    /\ trav.out = NotSkipped(trav.calls)
    /\ \A i \in 1..Len(trav.calls) : trav.calls[i].end => i = Len(trav.calls)

\* ------------------------------------------------------------------ signal.depth
\* C22: whenever a node is exposed to the consumer, signal.depth is the depth
\* at which the node was reached (0 for a root, one more than the depth of the
\* node whose next() call put it in the frontier), also right after nodes that
\* were already visited have been discarded, and no frame of the depth-first
\* branch counts is negative.
C22_DepthIsReachedDepth ==
    /\ \A i \in 1..Len(trav.calls) :
          /\ trav.calls[i].depth = trav.calls[i].reached
          /\ \A k \in 1..Len(trav.calls[i].frames) : trav.calls[i].frames[k] >= 0
    /\ \A k \in 1..Len(trav.sig.branchCount) : trav.sig.branchCount[k] >= 0

\* ------------------------------------------------------------------ link consistency
\* C23: after any sequence of attach, detach, detachSelf and dismantle calls,
\* successful or failed, a node c is in the child set of p exactly when the
\* parent of c is p, and so every node is in the child set of at most one node.
C23_LinksConsistent ==
    /\ \A p \in Nodes, c \in Nodes :
          c \in Range(children[p].items) <=> parent[c] = p
    /\ \A c \in Nodes :
          Cardinality({p \in Nodes : c \in Range(children[p].items)}) <= 1

\* A failed detach that leaves a node with two children.
C23_Witness ==
    /\ last = Called("detach", "error")
    /\ Acyclic(parent)
    /\ \E p \in Nodes : Len(children[p].items) >= 2

\* ------------------------------------------------------------------ two hierarchies
\* Two Hierarchy instances; each is the brand it puts on its nodes, and neither
\* has an Equals method.
Hierarchies == {"H1", "H2"}

\* The nodes in the lookup map of the hierarchy h.
Indexed(h) == Range(h.nodes) \ {NoNode}

\* A forest of HierNodes unbranded nodes and two new hierarchies for ids.
InitTwo ==
    /\ parent \in {p \in [1..HierNodes -> 0..HierNodes] : Acyclic(p)}
    /\ children \in ChildOrders(parent)
    /\ brand = [n \in 1..HierNodes |-> Undefined]
    /\ debrands = [n \in 1..HierNodes |-> <<>>]
    /\ last = Called("new", "ok")
    /\ hier = [h \in Hierarchies |-> NewHierarchy(1..HierNodes)]
    /\ trav = NoTraversal
    /\ map = NewMultiMap

NextTwo ==
    \/ \E this \in Hierarchies, nodes \in SeqsUpTo(Nodes, MaxArgs) : AttachRoot(this, nodes)
    \/ \E this \in Hierarchies, parentId \in Nodes, nodes \in SeqsUpTo(Nodes, MaxArgs) :
            HierarchyAttach(this, parentId, nodes)

SpecTwo == InitTwo /\ [][NextTwo]_vars

\* C24: after any interleaving of attachRoot and attach calls on two
\* hierarchies, successful or failed, no node is in the lookup maps of both,
\* and every node in the lookup map of a hierarchy carries the brand of that
\* hierarchy.
C24_ExclusiveRegistry ==
    /\ Indexed(hier["H1"]) \cap Indexed(hier["H2"]) = {}
    /\ \A h \in Hierarchies : \A n \in Indexed(hier[h]) : brand[n] = h

\* Both hierarchies index nodes, and the last call failed on a node of the
\* other hierarchy.
C24_Witness ==
    /\ Indexed(hier["H1"]) # {}
    /\ Indexed(hier["H2"]) # {}
    /\ last.result = "error"
    /\ \E n \in Nodes : parent[n] # NoNode /\ brand[n] # Undefined
                        /\ brand[parent[n]] # Undefined /\ brand[parent[n]] # brand[n]

\* ------------------------------------------------------------------ MultiMap
\* A MultiMap is a Map of keys to Sets: its entries [key, set] in insertion
\* order, every set in insertion order.

\* Map.prototype.keys()
mapKeys(m) == [i \in 1..Len(m) |-> m[i].key]

\* Map.prototype.has(key)
mapHas(m, key) == key \in Range(mapKeys(m))

\* Map.prototype.get(key) of a key the map has
mapGet(m, key) == m[IndexOf(mapKeys(m), key)].set

\* Map.prototype.set(key, set): a new key goes last, a key the map has keeps
\* its place.
mapSet(m, key, set) ==
    IF mapHas(m, key)
    THEN [m EXCEPT ![IndexOf(mapKeys(m), key)].set = set]
    ELSE Append(m, [key |-> key, set |-> set])

\* Map.prototype.delete(key)
mapDelete(m, key) == SelectSeq(m, LAMBDA e : e.key # key)

\* mapGetLazy(map, key, () => made): the map after the call; the value of the
\* key is the one it had, or `made`, which the call stores in the map.
mapGetLazy(m, key, made) == IF mapHas(m, key) THEN m ELSE mapSet(m, key, made)

\* for (let value of iterateMultiple(values)) set.add(value)
RECURSIVE addLoop(_, _, _)
addLoop(set, values, i) ==
    IF i > Len(values) THEN set
    ELSE addLoop(SetAdd(set, values[i]), values, i + 1)

\* MultiMap.add(key, values): the map after the call and the count returned.
\* The set that mapGetLazy returns is the set in the map.
multiMapAdd(m, key, values) ==
    LET m1 == mapGetLazy(m, key, <<>>)
    IN  [map   |-> mapSet(m1, key, addLoop(mapGet(m1, key), values, 1)),
         count |-> Len(values)]

\* for (let value of iterateMultiple(values)) if (set.delete(value)) removed.push(value)
RECURSIVE removeLoop(_, _, _)
removeLoop(st, values, i) ==
    IF i > Len(values) THEN st
    ELSE removeLoop(
            IF values[i] \in Range(st.set)
            THEN [set     |-> SetDelete(st.set, values[i]),
                  removed |-> Append(st.removed, values[i])]
            ELSE st,
            values, i + 1)

\* MultiMap.remove(key, values): the map after the call and the array returned.
multiMapRemove(m, key, values) ==
    LET m1 == mapGetLazy(m, key, <<>>)
        st == removeLoop([set |-> mapGet(m1, key), removed |-> <<>>], values, 1)
        m2 == mapSet(m1, key, st.set)
    IN  [map     |-> IF Len(st.set) = 0 THEN mapDelete(m2, key) ELSE m2,
         removed |-> st.removed]

\* ------------------------------------------------------------------ Nodes
\* The ids of a child-map.
MapIds == 3

\* nodeToId(node, identify)
nodeToId(n) == identify(itemOf(n))

\* The pairs [parent, child] in the order in which the loops of assembleIds
\* over childMap.entries() and over the childIds of an entry reach them.
RECURSIVE childPairs(_, _)
childPairs(m, i) ==
    IF i > Len(m) THEN <<>>
    ELSE [j \in 1..Len(m[i].set) |-> [parent |-> m[i].key, child |-> m[i].set[j]]]
         \o childPairs(m, i + 1)

\* The second loop of assembleIds from the i-th pair on: get or create the
\* node of the child id, attach it to the node of the parent id, and delete
\* the child id from roots.  A node is named by the id it is created for, and
\* `nodes` lists the ids that have a node.  An attach that throws ends the
\* call.
RECURSIVE assembleLoop(_, _, _)
assembleLoop(st, pairs, i) ==
    IF i > Len(pairs) THEN st
    ELSE LET childNode == pairs[i].child
             a == attach(st, pairs[i].parent, <<childNode>>)
         IN  IF a.result # "ok"
             THEN [st EXCEPT !.result = a.result]
             ELSE assembleLoop([parent   |-> a.parent,
                                children |-> a.children,
                                nodes    |-> SetAdd(st.nodes, pairs[i].child),
                                roots    |-> SetDelete(st.roots, pairs[i].child),
                                result   |-> "ok"],
                               pairs, i + 1)

\* Nodes.assembleIds(childMap) where no node exists yet (s: no links): a node
\* for every key, in roots and in nodes; then the second loop; the result is
\* the array of the nodes left in roots.
assembleIds(s, childMap) ==
    assembleLoop([parent   |-> s.parent,
                  children |-> s.children,
                  nodes    |-> mapKeys(childMap),
                  roots    |-> mapKeys(childMap),
                  result   |-> "ok"],
                 childPairs(childMap, 1), 1)

\* iterateAll(traversal) in toChildMap: the callback passes the children of
\* the node to signal.next and, unless the node is a leaf, adds the ids of its
\* children to the map at the id of the node.
RECURSIVE toChildMapLoop(_, _, _)
toChildMapLoop(s, t, m) ==
    IF t.done THEN m
    ELSE LET res  == tryGetNext(t.sig)
             node == res.value
         IN  IF ~res.success
             THEN toChildMapLoop(s, traverseCallback(t, <<>>, <<>>), m)
             ELSE toChildMapLoop(s, traverseCallback(t, <<"next">>, childrenOf(s, node)),
                                 IF isLeaf(s, node) THEN m
                                 ELSE multiMapAdd(m, nodeToId(node),
                                                  nodesToIds(childrenOf(s, node))).map)

\* Nodes.toChildMap(roots, identify)
toChildMap(s, roots) ==
    toChildMapLoop(s, traverseGraph([n \in DOMAIN s.parent |-> childrenOf(s, n)],
                                    roots, Undefined, FALSE),
                   NewMultiMap)

\* The child-map with the keys `keys`, in that order, and the child sets c.
childMapOf(c, keys) == [i \in 1..Len(keys) |-> [key |-> keys[i], set |-> c[keys[i]].items]]

\* The child-maps over the ids 1..MapIds that describe a forest: every id is
\* in the set of at most one key and no id is its own ancestor.  Every id with
\* children is a key; an id without children is a key with an empty set, or
\* is not a key.
ForestMaps ==
    UNION {{childMapOf(c, keys) :
                keys \in {q \in SeqsUpTo(1..MapIds, MapIds) :
                            /\ NoRepeats(q)
                            /\ \A n \in 1..MapIds : c[n].defined => n \in Range(q)}} :
           c \in UNION {ChildOrders(p) : p \in {f \in [1..MapIds -> 0..MapIds] : Acyclic(f)}}}

\* Nodes.assembleIds(map)
AssembleIds ==
    /\ last.op = "new"
    /\ SetLinks(assembleIds(Links, map))
    /\ last' = [op     |-> "assembleIds",
                result |-> assembleIds(Links, map).result,
                roots  |-> assembleIds(Links, map).roots]
    /\ UNCHANGED <<brand, debrands, hier, trav, map>>

\* Nodes.toChildMap(roots) of the roots that assembleIds returned
ToChildMap ==
    /\ last.op = "assembleIds"
    /\ last.result = "ok"
    /\ last' = [op     |-> "toChildMap",
                result |-> "ok",
                map    |-> toChildMap(Links, last.roots)]
    /\ UNCHANGED <<parent, children, brand, debrands, hier, trav, map>>

\* A child-map that describes a forest, and no node yet.
InitAssemble ==
    /\ parent = [n \in 1..MapIds |-> NoNode]
    /\ children = [n \in 1..MapIds |-> NoChildren]
    /\ brand = [n \in 1..MapIds |-> Undefined]
    /\ debrands = [n \in 1..MapIds |-> <<>>]
    /\ last = Called("new", "ok")
    /\ hier = NoHierarchy
    /\ trav = NoTraversal
    /\ map \in ForestMaps

NextAssemble ==
    \/ AssembleIds
    \/ ToChildMap

SpecAssemble == InitAssemble /\ [][NextAssemble]_vars

\* The set of the key k in the child-map m, empty when k is not a key.
childSetOf(m, k) == IF mapHas(m, k) THEN Range(mapGet(m, k)) ELSE {}

\* C25: for a child-map m that describes a forest, assembleIds(m) returns as
\* roots exactly the keys of m that are in the set of no key, with the nodes
\* linked as m describes, and toChildMap of those roots has the keys of m and
\* for every key the child set that m has.
C25_ChildMapRoundTrip ==
    /\ last.op \in {"assembleIds", "toChildMap"} =>
          /\ last.op = "assembleIds" =>
                /\ last.result = "ok"
                /\ Range(last.roots) =
                      {k \in Range(mapKeys(map)) :
                          \A j \in Range(mapKeys(map)) : k \notin childSetOf(map, j)}
          /\ \A n \in Nodes : Range(childrenOf(Links, n)) = childSetOf(map, n)
          /\ \A n \in Nodes : \A k \in Nodes :
                parent[n] = k <=> n \in childSetOf(map, k)
    /\ last.op = "toChildMap" =>
          /\ Range(mapKeys(last.map)) = Range(mapKeys(map))
          /\ \A k \in Range(mapKeys(map)) : childSetOf(last.map, k) = childSetOf(map, k)

\* ------------------------------------------------------------------ MultiMap calls
\* The keys of the MultiMap calls; the values are the ids 1..MapIds.
MapKeys == 2

\* map.add(key, values)
MultiMapAdd(key, values) ==
    /\ map' = multiMapAdd(map, key, values).map
    /\ last' = Called("add", multiMapAdd(map, key, values).count)
    /\ UNCHANGED <<parent, children, brand, debrands, hier, trav>>

\* map.remove(key, values)
MultiMapRemove(key, values) ==
    /\ map' = multiMapRemove(map, key, values).map
    /\ last' = Called("remove", multiMapRemove(map, key, values).removed)
    /\ UNCHANGED <<parent, children, brand, debrands, hier, trav>>

\* A new MultiMap.
InitMultiMap ==
    /\ parent = [n \in 1..MapIds |-> NoNode]
    /\ children = [n \in 1..MapIds |-> NoChildren]
    /\ brand = [n \in 1..MapIds |-> Undefined]
    /\ debrands = [n \in 1..MapIds |-> <<>>]
    /\ last = Called("new", "ok")
    /\ hier = NoHierarchy
    /\ trav = NoTraversal
    /\ map = NewMultiMap

NextMultiMap ==
    \/ \E key \in 1..MapKeys, values \in SeqsUpTo(1..MapIds, MaxArgs) : MultiMapAdd(key, values)
    \/ \E key \in 1..MapKeys, values \in SeqsUpTo(1..MapIds, MaxArgs) : MultiMapRemove(key, values)

SpecMultiMap == InitMultiMap /\ [][NextMultiMap]_vars

\* C26: after any sequence of add and remove calls, with any key and any
\* collection of values, the empty one included, no key of the map has an
\* empty set, and remove returns exactly the supplied values that were in the
\* set of the key before the call.
C26_NoEmptySets ==
    /\ \A i \in 1..Len(map) : Len(map[i].set) > 0
    /\ \A key \in 1..MapKeys, values \in SeqsUpTo(1..MapIds, MaxArgs) :
          Range(multiMapRemove(map, key, values).removed)
              = Range(values) \cap childSetOf(map, key)

====
